---- MODULE Spec2Model ----
(***************************************************************************)
(* MapOperation and ParallelMapOperation of docetl/operations/map.py.      *)
(*                                                                         *)
(* A Python dict is a function whose DOMAIN is the set of keys present,    *)
(* so  "prompt" in self.config  reads  "prompt" \in DOMAIN config.  List   *)
(* positions are 0-based as in the source: Item(k) is input_data[k].       *)
(* The model-invocation client, the response parser and the rate limiter   *)
(* are collaborators: what they return is chosen by the environment.       *)
(***************************************************************************)
EXTENDS Integers, Sequences, FiniteSets, TLC

\* ------------------------------------------------------------------ bounds
MaxItems == 2

\* ----------------------------------------------------------------- records
EmptyRec == [k \in {} |-> 0]

Rec1(k, v) == [x \in {k} |-> v]

Rec2(k1, v1, k2, v2) == [x \in {k1, k2} |-> IF x = k1 THEN v1 ELSE v2]

\* {**a, **b} and a.update(b): every key of either, b's value on a conflict
MergeWrong(a, b) == [k \in DOMAIN a \cup DOMAIN b |-> IF k \in DOMAIN a THEN a[k] ELSE b[k]]

Merge(a, b) == [k \in DOMAIN a \cup DOMAIN b |-> IF k \in DOMAIN b THEN b[k] ELSE a[k]]

\* {k: v for k, v in item.items() if k not in drop_keys}; item.pop(key, None)
DropKeysWrong(item, drop_keys) == [k \in DOMAIN item \cap drop_keys |-> item[k]]

DropKeys(item, drop_keys) == [k \in DOMAIN item \ drop_keys |-> item[k]]

\* Python truthiness of a str, a dict and a list
TruthyStr(s) == s # ""

TruthyDict(d) == DOMAIN d # {}

TruthyList(l) == l # {}

\* config.<key> after self.schema(**self.config): None unless the key is given
Given(cfg, key) == key \in DOMAIN cfg

\* --------------------------------------------------------- the input space
\* records the caller supplies: values 0; the model's values are 1 and 2
InputRecords == {EmptyRec, Rec1("id", 0), Rec2("id", 0, "a", 0)}

\* the content of a model response: a value for every field a schema may ask for
Payloads == {Rec2("a", 1, "b", 1), Rec2("a", 2, "b", 2)}

InputCollections == UNION {[1..n -> InputRecords] : n \in 0..MaxItems}

FewCollections == UNION {[1..n -> {EmptyRec, Rec2("id", 0, "a", 0)}] : n \in 0..MaxItems}

\* a template that parses, one that does not, and the empty string
Templates == {"", "ok", "bad"}

ValidTemplate(t) == t # "bad"

SchemaA == Rec1("a", "string")

SchemaAB == Rec2("a", "string", "b", "string")

Opt(key, vals) == {EmptyRec} \cup {Rec1(key, v) : v \in vals}

\* output: {} , {"other": ..} (no schema) , {"schema": S}
MapOutputs == {EmptyRec, Rec1("other", 0), Rec1("schema", EmptyRec), Rec1("schema", SchemaA)}

MapConfigs ==
    {Merge(Merge(p, o), d) : p \in Opt("prompt", Templates), o \in Opt("output", MapOutputs),
                             d \in Opt("drop_keys", {{}, {"id"}, {"a", "zz"}})}

PromptConfigs ==
    {Merge(p, k) : p \in Opt("prompt", {"ok", "bad"}),
                   k \in Opt("output_keys", {{}, {"a"}, {"b"}, {"a", "zz"}})}

PromptLists == {<<>>} \cup {<<p>> : p \in PromptConfigs} \cup {<<p, q>> : p, q \in PromptConfigs}

PMapOutputs == {EmptyRec, Rec1("schema", EmptyRec), Rec1("schema", SchemaA), Rec1("schema", SchemaAB)}

PMapConfigs ==
    {Merge(Merge(p, o), d) : p \in Opt("prompts", PromptLists), o \in Opt("output", PMapOutputs),
                             d \in Opt("drop_keys", {{"id"}})}

\* what call_llm answers (the Invocation Result), and whether it or the parse
\* of its response raises
Answer(validated, response, total_cost) ==
    [validated |-> validated, response |-> response, total_cost |-> total_cost, raises |-> "none"]

CallRaises == [validated |-> FALSE, response |-> EmptyRec, total_cost |-> 1, raises |-> "call"]

ParseRaises == [validated |-> TRUE, response |-> EmptyRec, total_cost |-> 1, raises |-> "parse"]

Responses == {Answer(v, p, c) : v \in BOOLEAN, p \in Payloads, c \in {1, 2}} \cup {CallRaises, ParseRaises}

\* no validation directive is passed by process_prompt: nothing fails validation
FewResponses == {Answer(TRUE, Rec2("a", 1, "b", 1), 1), Answer(TRUE, Rec2("a", 2, "b", 2), 2), CallRaises}

\* one answer of each kind: validated or not, either cost, either failure
MixedResponses ==
    {Answer(TRUE, Rec2("a", 1, "b", 1), 1), Answer(TRUE, Rec2("a", 2, "b", 2), 2),
     Answer(FALSE, Rec2("a", 1, "b", 1), 2), CallRaises, ParseRaises}

\* a response may lack a field of the schema
PartialResponses == {Answer(TRUE, Rec1("b", 1), 1), Answer(TRUE, Rec2("a", 1, "b", 1), 1), Answer(FALSE, Rec1("b", 1), 2)}

\* parse_llm_response(response, schema=schema)[0]: the response read against
\* the schema, a value for each of its fields that the response carries
parse_llm_response(response, schema) == [key \in DOMAIN schema \cap DOMAIN response |-> response[key]]

\* the answers of a run, by name
AnswerSet(name) ==
    IF name = "every" THEN Responses
    ELSE IF name = "few" THEN FewResponses
    ELSE IF name = "few+invalid" THEN FewResponses \cup {Answer(FALSE, Rec2("a", 1, "b", 1), 1)}
    ELSE IF name = "partial" THEN PartialResponses
    ELSE IF name = "mixed" THEN MixedResponses
    ELSE FewResponses \cup {ParseRaises}

Scenario(v, c, d, w, a) == [variant |-> v, config |-> c, input_data |-> d, max_workers |-> w, answers |-> a]

\* every configuration, on one record
OneRecord == {<<EmptyRec>>, <<Rec2("id", 0, "a", 0)>>}

ConfigSweep ==
    {Scenario("map", c, d, 1, "every") : c \in MapConfigs, d \in OneRecord}
    \cup {Scenario("parallel_map", c, d, 2, "few+parse") : c \in PMapConfigs, d \in OneRecord}

\* the configurations that run, on every collection
Prompt(template, output_keys) == [prompt |-> template, output_keys |-> output_keys]

MapRunConfigs ==
    {Merge([prompt |-> "ok", output |-> Rec1("schema", SchemaA)], d) : d \in Opt("drop_keys", {{"id"}, {"a", "zz"}})}

PMapRunConfigs ==
    {Merge([prompts |-> p, output |-> Rec1("schema", SchemaAB)], d) :
        p \in {<<Prompt("ok", {"a"}), Prompt("ok", {"b"})>>, <<Prompt("ok", {"a", "b"}), Prompt("ok", {"a"})>>,
               <<Prompt("ok", {"a", "b"})>>},
        d \in Opt("drop_keys", {{"a", "zz"}})}

\* validation rules configured: call_llm is handed validation_fn
ValidateConfigs == {[prompt |-> "ok", output |-> Rec1("schema", SchemaA), validate |-> {"rule"}]}

\* only drop_keys: the fast path
FastConfigs == {Rec1("drop_keys", d) : d \in {{}, {"id"}, {"a", "zz"}}}

ExecSweep ==
    {Scenario("map", c, d, w, "mixed") : c \in MapRunConfigs, d \in InputCollections, w \in {1, 2}}
    \cup {Scenario("parallel_map", c, d, 2, "few") : c \in PMapRunConfigs, d \in FewCollections}
    \cup {Scenario("map", c, d, 2, "partial") : c \in ValidateConfigs, d \in FewCollections}
    \cup {Scenario(v, c, d, 1, "every") : v \in {"map", "parallel_map"}, c \in FastConfigs, d \in InputCollections}

Scenarios == ConfigSweep \cup ExecSweep

\* the single-prompt runs that are run a second time
TwiceScenarios == {Scenario("map", c, d, 2, "few+invalid") : c \in MapRunConfigs, d \in InputCollections}

\* the runs followed to their end: pools of one and of two workers, both
\* variants, the generative path and the fast path
LiveCollections == UNION {[1..n -> {Rec2("id", 0, "a", 0)}] : n \in 0..MaxItems}

LiveScenarios ==
    {Scenario("map", [prompt |-> "ok", output |-> Rec1("schema", SchemaA)], d, w, "few+invalid") :
        d \in LiveCollections, w \in {1, 2}}
    \cup {Scenario("parallel_map", [prompts |-> <<Prompt("ok", {"a"}), Prompt("ok", {"b"})>>, output |-> Rec1("schema", SchemaAB)], d, w, "few") :
        d \in LiveCollections, w \in {1, 2}}
    \cup {Scenario(v, Rec1("drop_keys", {"id"}), d, 1, "few") : v \in {"map", "parallel_map"}, d \in LiveCollections}

\* ------------------------------------------------- configuration validation
\* set(output_schema.keys()) - output_keys_covered, with output_keys_covered
\* the union of every prompt's output_keys
CoveredKeys(prompts) == UNION {prompts[j]["output_keys"] : j \in DOMAIN prompts}

MissingKeysWrong(output_schema, prompts) == {}

MissingKeys(output_schema, prompts) == DOMAIN output_schema \ CoveredKeys(prompts)

\* the per-entry checks of one prompt configuration; types are as declared
PromptConfigCheck(prompt_config) ==
    IF ~ Given(prompt_config, "prompt") \/ ~ Given(prompt_config, "output_keys") THEN "ValueError"
    ELSE IF ~ TruthyList(prompt_config["output_keys"]) THEN "ValueError"
    ELSE IF ~ ValidTemplate(prompt_config["prompt"]) THEN "ValueError"
    ELSE "ok"

\* MapOperation.syntax_check: "ok", or the name of the exception raised
MapSyntaxCheck(cfg) ==
    LET prompt == Given(cfg, "prompt") /\ TruthyStr(cfg["prompt"])
        output == Given(cfg, "output") /\ TruthyDict(cfg["output"])
        drop_keys == Given(cfg, "drop_keys") /\ TruthyList(cfg["drop_keys"])
    IN  IF ~ drop_keys /\ ~ (prompt /\ output) THEN "ValueError"
        ELSE IF prompt \/ output
             THEN IF ~ prompt \/ ~ output THEN "ValueError"
                  ELSE IF "schema" \notin DOMAIN cfg["output"] THEN "KeyError"
                  ELSE IF ~ TruthyDict(cfg["output"]["schema"]) THEN "ValueError"
                  ELSE IF ~ ValidTemplate(cfg["prompt"]) THEN "ValueError"
                  ELSE "ok"
             ELSE "ok"

\* ParallelMapOperation.syntax_check: "ok", or the name of the exception raised
PMapSyntaxCheck(cfg) ==
    IF ~ Given(cfg, "drop_keys") /\ ~ Given(cfg, "prompts") THEN "ValueError"
    ELSE IF Given(cfg, "prompts")
         THEN IF DOMAIN cfg["prompts"] = {} THEN "ValueError"
              ELSE IF \E j \in DOMAIN cfg["prompts"] : PromptConfigCheck(cfg["prompts"][j]) # "ok" THEN "ValueError"
              ELSE IF ~ Given(cfg, "output") THEN "KeyError"
              ELSE IF "schema" \notin DOMAIN cfg["output"] THEN "KeyError"
              ELSE IF MissingKeys(cfg["output"]["schema"], cfg["prompts"]) # {} THEN "ValueError"
              ELSE "ok"
         ELSE "ok"

\* ------------------------------------------------------------------ state
VARIABLES
    variant,        \* "map" (MapOperation) or "parallel_map" (ParallelMapOperation)
    config,         \* self.config
    input_data,     \* the argument of execute, as it was when execute was called
    input_now,      \* the caller's records as they are now
    max_workers,    \* max_workers of the ThreadPoolExecutor
    answers,        \* which answers the model-invocation client may give in this run
    first,          \* the run before this one, when execute is run a second time
    phase,          \* where the calling thread is
    verdict,        \* what syntax_check did: "ok" or the exception raised
    futures,        \* futures / all_futures: one entry per submitted unit
    i,              \* the index of the draining loop
    results,        \* results: a list (map), a dict by item index (parallel_map)
    results_src,    \* for each entry of the list results, the input index it derives from
    total_cost,     \* total_cost
    ret,            \* the collection execute returned
    ret_src,        \* for each record of ret, the input index it derives from
    error,          \* the exception execute raised
    n_acquire,      \* calls of rate_limiter.try_acquire that returned
    n_call          \* calls of call_llm that began

vars == <<variant, config, input_data, input_now, max_workers, answers, first, phase, verdict, futures, i, results, results_src, total_cost, ret, ret_src, error, n_acquire, n_call>>

env == <<variant, config, input_data, input_now, max_workers, answers, first>>

\* env without the caller's records
args == <<variant, config, input_data, max_workers, answers, first>>

\* len(input_data) and input_data[k]
NumItems == Len(input_data)

ItemWrong(k) == input_data[Len(input_data)]

Item(k) == input_data[k + 1]

\* what a rendered prompt is: the template and the record it was rendered against;
\* the empty template renders to the empty string against every record
EmptyString == [tmpl |-> "", data |-> EmptyRec]

NoPrompt == [tmpl |-> "<none>", data |-> EmptyRec]

Rendered(template, item) == IF template = "" THEN EmptyString ELSE [tmpl |-> template, data |-> item]

\* render_jinja_template: "" for an empty record, without parsing the template
render_jinja_template(template_string, data) ==
    IF DOMAIN data = {} THEN [raised |-> "none", text |-> EmptyString]
    ELSE IF ~ ValidTemplate(template_string) THEN [raised |-> "TemplateSyntaxError", text |-> NoPrompt]
    ELSE [raised |-> "none", text |-> Rendered(template_string, data)]

\* Template(self.config["prompt"]).render(input=item)
TemplateRender(template_string, item) ==
    IF ~ ValidTemplate(template_string) THEN [raised |-> "TemplateSyntaxError", text |-> NoPrompt]
    ELSE [raised |-> "none", text |-> Rendered(template_string, item)]

\* a future: the arguments it was submitted with (item index, prompt index), then
\* queued, running (its worker is up to the blocking call), acquired,
\* done with (out, cost) where has_out = FALSE is a None record, or raised;
\* acq counts its calls of try_acquire that returned,
\* answer is the Invocation Result its call_llm returned, checked the record
\* validation_fn handed to validate_output for that response
NoAnswer == [validated |-> FALSE, response |-> EmptyRec, total_cost |-> 0, raises |-> "unasked"]

Queued(item, pj) == [item |-> item, pj |-> pj, st |-> "queued", prompt |-> NoPrompt, answer |-> NoAnswer, acq |-> 0, has_checked |-> FALSE, checked |-> EmptyRec, has_out |-> FALSE, out |-> EmptyRec, cost |-> 0, err |-> "none"]

Running(f, prompt) == [f EXCEPT !.st = "running", !.prompt = prompt]

Raised(f, err) == [f EXCEPT !.st = "raised", !.err = err]

Done(f, has_out, out, cost) == [f EXCEPT !.st = "done", !.has_out = has_out, !.out = out, !.cost = cost]

Finished(f) == f.st \in {"done", "raised"}

Units == DOMAIN futures

\* the workers of the pool that are taken: a worker is free again as soon as
\* its unit has returned or raised
BusyWrong == {u \in Units : futures[u].st \in {"running", "acquired", "done", "raised"}}

Busy == {u \in Units : futures[u].st \in {"running", "acquired"}}

\* the collaborator answers a unit; in a second run over the same input it
\* answers as before for every item but the one that was changed
NoFirst == [done |-> FALSE, k |-> 0, ret |-> <<>>, ret_src |-> <<>>, answer |-> <<>>]

Answers(u) == IF first.done /\ futures[u].item # first.k THEN {first.answer[u]} ELSE AnswerSet(answers)

\* a worker of the pool takes the oldest queued unit when it is free
CanStartWrong(u) ==
    /\ phase \in {"draining", "unwinding"}
    /\ futures[u].st = "queued"
    /\ \A v \in Units : v < u => futures[v].st # "queued"

CanStart(u) ==
    /\ phase \in {"draining", "unwinding"}
    /\ futures[u].st = "queued"
    /\ \A v \in Units : v < u => futures[v].st # "queued"
    /\ Cardinality(Busy) < max_workers

Init ==
    /\ \E s \in Scenarios :
        /\ variant = s.variant
        /\ config = s.config
        /\ input_data = s.input_data
        /\ input_now = s.input_data
        /\ max_workers = s.max_workers
        /\ answers = s.answers
    /\ first = NoFirst
    /\ phase = "new"
    /\ verdict = "none"
    /\ futures = <<>>
    /\ i = 0
    /\ results = <<>>
    /\ results_src = <<>>
    /\ total_cost = 0
    /\ ret = <<>>
    /\ ret_src = <<>>
    /\ error = "none"
    /\ n_acquire = 0
    /\ n_call = 0

\* the caller validates the configuration
SyntaxCheck ==
    /\ phase = "new"
    /\ verdict' = IF variant = "map" THEN MapSyntaxCheck(config) ELSE PMapSyntaxCheck(config)
    /\ phase' = "checked"
    /\ UNCHANGED <<env, futures, i, results, results_src, total_cost, ret, ret_src, error, n_acquire, n_call>>

\* the with-block of execute is left by an exception: the executor first waits
\* for every submitted unit, then the exception reaches the caller
Shutdown ==
    /\ phase = "unwinding"
    /\ \A u \in Units : Finished(futures[u])
    /\ phase' = "failed"
    /\ UNCHANGED <<env, verdict, futures, i, results, results_src, total_cost, ret, ret_src, error, n_acquire, n_call>>

\* total_cost += item_cost
AddCostWrong(total, f) == IF f.has_out THEN total + f.cost ELSE total

AddCost(total, f) == total + f.cost

\* ------------------------------------------------- MapOperation.execute
MapOnlyDropKeys == ~ Given(config, "prompt") /\ Given(config, "drop_keys")

MapFastPath ==
    /\ phase = "checked"
    /\ variant = "map"
    /\ MapOnlyDropKeys
    /\ ret' = [k \in 1..NumItems |-> DropKeys(input_data[k], config["drop_keys"])]
    /\ ret_src' = [k \in 1..NumItems |-> k - 1]
    /\ total_cost' = 0
    /\ phase' = "returned"
    /\ UNCHANGED <<env, verdict, futures, i, results, results_src, error, n_acquire, n_call>>

MapSubmit ==
    /\ phase = "checked"
    /\ variant = "map"
    /\ ~ MapOnlyDropKeys
    /\ futures' = [u \in 0..(NumItems - 1) |-> Queued(u, 0)]
    /\ results' = <<>>
    /\ results_src' = <<>>
    /\ total_cost' = 0
    /\ i' = 0
    /\ phase' = "draining"
    /\ UNCHANGED <<env, verdict, ret, ret_src, error, n_acquire, n_call>>

\* _process_map_item up to the rate limiter: the prompt is rendered
MapStart(u) ==
    /\ variant = "map"
    /\ CanStart(u)
    /\ LET f == futures[u]
           r == TemplateRender(config["prompt"], Item(f.item))
       IN  futures' = [futures EXCEPT ![u] =
                IF ~ Given(config, "prompt") THEN Raised(f, "KeyError")
                ELSE IF r.raised # "none" THEN Raised(f, r.raised)
                ELSE Running(f, r.text)]
    /\ UNCHANGED <<env, phase, verdict, i, results, results_src, total_cost, ret, ret_src, error, n_acquire, n_call>>

\* rate_limiter.try_acquire("call", weight=1) returns
MapAcquire(u) ==
    /\ variant = "map"
    /\ u \in Units
    /\ futures[u].st = "running"
    /\ futures' = [futures EXCEPT ![u].st = "acquired", ![u].acq = @ + 1]
    /\ n_acquire' = n_acquire + 1
    /\ UNCHANGED <<env, phase, verdict, i, results, results_src, total_cost, ret, ret_src, error, n_call>>

\* the rest of _process_map_item once call_llm has answered r
MapItemOutcomeWrong(f, item, r) ==
    IF r.raises = "call" THEN Raised(f, "LLMError")
    ELSE IF r.raises = "parse" THEN Raised(f, "ParseError")
    ELSE Done(f, TRUE, Merge(item, parse_llm_response(r.response, config["output"]["schema"])), r.total_cost)

MapItemOutcomeSwallows(f, item, r) ==
    IF r.raises # "none" THEN Done(f, FALSE, EmptyRec, r.total_cost)
    ELSE IF r.validated
         THEN Done(f, TRUE, Merge(item, parse_llm_response(r.response, config["output"]["schema"])), r.total_cost)
         ELSE Done(f, FALSE, EmptyRec, r.total_cost)

MapItemOutcome(f, item, r) ==
    IF r.raises = "call" THEN Raised(f, "LLMError")
    ELSE IF r.validated
         THEN IF r.raises = "parse" THEN Raised(f, "ParseError")
              ELSE Done(f, TRUE, Merge(item, parse_llm_response(r.response, config["output"]["schema"])), r.total_cost)
         ELSE Done(f, FALSE, EmptyRec, r.total_cost)

\* validation_fn(response): the parsed output with every field of the item
\* that is no key of the schema written into it
validation_fn(item, response) ==
    LET schema == config["output"]["schema"]
        output == parse_llm_response(response, schema)
        filled == DOMAIN item \ DOMAIN schema
    IN  [key \in DOMAIN output \cup filled |-> IF key \in filled THEN item[key] ELSE output[key]]

\* validation_config: the directive is passed if self.config.get("validate", None)
HasValidationConfig == Given(config, "validate") /\ TruthyList(config["validate"])

\* call_llm runs validation_fn on the response it is about to return
Validate(f, item, r) ==
    IF HasValidationConfig /\ r.raises = "none"
    THEN [f EXCEPT !.answer = r, !.has_checked = TRUE, !.checked = validation_fn(item, r.response)]
    ELSE [f EXCEPT !.answer = r]

\* where a unit of _process_map_item stands when it calls call_llm: past try_acquire
MapReadyToCallWrong(f) == f.st \in {"running", "acquired"}

MapReadyToCall(f) == f.st = "acquired"

\* call_llm: its arguments are evaluated first (self.config["output"]["schema"])
MapCall(u) ==
    /\ variant = "map"
    /\ u \in Units
    /\ MapReadyToCall(futures[u])
    /\ IF ~ Given(config, "output") \/ "schema" \notin DOMAIN config["output"]
       THEN /\ futures' = [futures EXCEPT ![u] = Raised(@, "KeyError")]
            /\ n_call' = n_call
       ELSE \E r \in Answers(u) :
            /\ futures' = [futures EXCEPT ![u] = MapItemOutcome(Validate(@, Item(@.item), r), Item(@.item), r)]
            /\ n_call' = n_call + 1
    /\ UNCHANGED <<env, phase, verdict, i, results, results_src, total_cost, ret, ret_src, error, n_acquire>>

\* the record appended for a drained result (drop_keys applied)
MapProjectWrong(out) == out

MapProject(out) == IF Given(config, "drop_keys") THEN DropKeys(out, config["drop_keys"]) ELSE out

\* one turn of the loop  for i in pbar
MapDrain ==
    /\ variant = "map"
    /\ phase = "draining"
    /\ i \in Units
    /\ Finished(futures[i])
    /\ LET f == futures[i]
       IN  IF f.st = "raised"
           THEN /\ phase' = "unwinding"
                /\ error' = f.err
                /\ UNCHANGED <<i, results, results_src, total_cost>>
           ELSE /\ results' = IF f.has_out THEN Append(results, MapProject(f.out)) ELSE results
                /\ results_src' = IF f.has_out THEN Append(results_src, i) ELSE results_src
                /\ total_cost' = AddCost(total_cost, f)
                /\ i' = i + 1
                /\ UNCHANGED <<phase, error>>
    /\ UNCHANGED <<env, verdict, futures, ret, ret_src, n_acquire, n_call>>

MapReturn ==
    /\ variant = "map"
    /\ phase = "draining"
    /\ i = Cardinality(Units)
    /\ ret' = results
    /\ ret_src' = results_src
    /\ phase' = "returned"
    /\ UNCHANGED <<env, verdict, futures, i, results, results_src, total_cost, error, n_acquire, n_call>>

\* ----------------------------------------- ParallelMapOperation.execute
\* d[k] = v on a dict
Put(d, k, v) == [x \in DOMAIN d \cup {k} |-> IF x = k THEN v ELSE d[x]]

RECURSIVE AscendingWrong(_)
AscendingWrong(S) ==
    IF S = {} THEN <<>>
    ELSE LET m == CHOOSE x \in S : \A y \in S : x >= y
         IN  <<m>> \o AscendingWrong(S \ {m})

RECURSIVE Ascending(_)
\* the members of a set of indices in range order
Ascending(S) ==
    IF S = {} THEN <<>>
    ELSE LET m == CHOOSE x \in S : \A y \in S : x <= y
         IN  <<m>> \o Ascending(S \ {m})

\* len(self.config["prompts"])
NumPrompts == Len(config["prompts"])

\* self.config.get("output", {}).get("schema", {})
OutputSchema ==
    IF Given(config, "output") /\ "schema" \in DOMAIN config["output"] THEN config["output"]["schema"] ELSE EmptyRec

PMapOnlyDropKeys == ~ Given(config, "prompts") /\ Given(config, "drop_keys")

PMapFastPath ==
    /\ phase = "checked"
    /\ variant = "parallel_map"
    /\ PMapOnlyDropKeys
    /\ ret' = [k \in 1..NumItems |-> DropKeys(input_data[k], config["drop_keys"])]
    /\ ret_src' = [k \in 1..NumItems |-> k - 1]
    /\ total_cost' = 0
    /\ phase' = "returned"
    /\ UNCHANGED <<env, verdict, futures, i, results, results_src, error, n_acquire, n_call>>

\* the units in the order of the comprehension: for item, for prompt_config
PMapSubmit ==
    /\ phase = "checked"
    /\ variant = "parallel_map"
    /\ ~ PMapOnlyDropKeys
    /\ IF Given(config, "prompts")
       THEN /\ futures' = [u \in 0..(NumItems * NumPrompts - 1) |-> Queued(u \div NumPrompts, u % NumPrompts)]
            /\ results' = EmptyRec
       ELSE /\ futures' = <<>>
            /\ results' = [k \in 0..(NumItems - 1) |-> Item(k)]
    /\ total_cost' = 0
    /\ i' = 0
    /\ phase' = "draining"
    /\ UNCHANGED <<env, verdict, results_src, ret, ret_src, error, n_acquire, n_call>>

\* process_prompt up to call_llm: "none", or the exception raised on the way
ProcessPromptSetup(item, prompt_config) ==
    IF ~ Given(prompt_config, "prompt") THEN "KeyError"
    ELSE IF render_jinja_template(prompt_config["prompt"], item).raised # "none" THEN "TemplateSyntaxError"
    ELSE IF ~ Given(prompt_config, "output_keys") THEN "KeyError"
    ELSE IF \E key \in prompt_config["output_keys"] : key \notin DOMAIN OutputSchema THEN "KeyError"
    ELSE "none"

\* the item a unit was submitted with: process_prompt(item, prompt_config)
\* closes over the record of input_data, not over results[item_index]
SubmittedItemWrong(k) == IF k \in DOMAIN results THEN results[k] ELSE Item(k)

SubmittedItem(k) == Item(k)

PMapStart(u) ==
    /\ variant = "parallel_map"
    /\ CanStart(u)
    /\ LET f == futures[u]
           item == SubmittedItem(f.item)
           prompt_config == config["prompts"][f.pj + 1]
           raised == ProcessPromptSetup(item, prompt_config)
       IN  futures' = [futures EXCEPT ![u] =
                IF raised # "none" THEN Raised(f, raised)
                ELSE Running(f, render_jinja_template(prompt_config["prompt"], item).text)]
    /\ UNCHANGED <<env, phase, verdict, i, results, results_src, total_cost, ret, ret_src, error, n_acquire, n_call>>

\* {key: output_schema[key] for key in prompt_config["output_keys"]}
LocalOutputSchema(prompt_config) == [key \in prompt_config["output_keys"] |-> OutputSchema[key]]

\* the rest of process_prompt once call_llm has answered r
PromptOutcome(f, r) ==
    IF r.raises = "call" THEN Raised(f, "LLMError")
    ELSE IF r.raises = "parse" THEN Raised(f, "ParseError")
    ELSE Done(f, TRUE, parse_llm_response(r.response, LocalOutputSchema(config["prompts"][f.pj + 1])), r.total_cost)

PMapCall(u) ==
    /\ variant = "parallel_map"
    /\ u \in Units
    /\ futures[u].st = "running"
    /\ \E r \in Answers(u) :
        /\ futures' = [futures EXCEPT ![u] = PromptOutcome([@ EXCEPT !.answer = r], r)]
        /\ n_call' = n_call + 1
    /\ UNCHANGED <<env, phase, verdict, i, results, results_src, total_cost, ret, ret_src, error, n_acquire>>

\* whose dict the accumulator of item k is: input_data[item_index].copy() is a
\* dict of execute's own, not the caller's record
OwnerWrong(k) == "caller"

Owner(k) == "execute"

\* a write to the accumulator of item k leaves it as rec: what it does to the
\* caller's records
WriteThrough(data, k, rec) == IF Owner(k) = "caller" THEN [data EXCEPT ![k + 1] = rec] ELSE data

\* item_index = i // len(prompts) and prompt_index = i % len(prompts)
ItemIndex(k) == k \div NumPrompts

PromptIndex(k) == k % NumPrompts

\* the fold of one drained output into the per-item accumulator
FoldWrong(res, k, output) ==
    Put(res, ItemIndex(k), Merge(Item(ItemIndex(k)), output))

Fold(res, k, output) ==
    LET item_index == ItemIndex(k)
        started == IF PromptIndex(k) = 0 THEN Put(res, item_index, Item(item_index)) ELSE res
    IN  Put(started, item_index, Merge(started[item_index], output))

PMapDrain ==
    /\ variant = "parallel_map"
    /\ phase = "draining"
    /\ i \in Units
    /\ Finished(futures[i])
    /\ LET f == futures[i]
       IN  IF f.st = "raised"
           THEN /\ phase' = "unwinding"
                /\ error' = f.err
                /\ UNCHANGED <<i, results, total_cost, input_now>>
           ELSE /\ total_cost' = AddCost(total_cost, f)
                /\ results' = Fold(results, i, f.out)
                /\ input_now' = WriteThrough(input_now, ItemIndex(i), Fold(results, i, f.out)[ItemIndex(i)])
                /\ i' = i + 1
                /\ UNCHANGED <<phase, error>>
    /\ UNCHANGED <<args, verdict, futures, results_src, ret, ret_src, n_acquire, n_call>>

\* drop_keys, then [results[i] for i in range(len(input_data)) if i in results]
PMapReturn ==
    /\ variant = "parallel_map"
    /\ phase = "draining"
    /\ i = Cardinality(Units)
    /\ LET kept == Ascending({k \in 0..(NumItems - 1) : k \in DOMAIN results})
           final(k) == IF Given(config, "drop_keys") THEN DropKeys(results[k], config["drop_keys"]) ELSE results[k]
           popped(data, k) == IF k \in DOMAIN results THEN WriteThrough(data, k, final(k)) ELSE data
       IN  /\ ret' = [n \in 1..Len(kept) |-> final(kept[n])]
           /\ ret_src' = kept
           /\ input_now' = [n \in 1..NumItems |-> popped(input_now, n - 1)[n]]
    /\ phase' = "returned"
    /\ UNCHANGED <<args, verdict, futures, i, results, results_src, total_cost, error, n_acquire, n_call>>

\* ---------------------------------------------------------- specification
Next ==
    \/ SyntaxCheck
    \/ MapFastPath
    \/ MapSubmit
    \/ \E u \in Units : MapStart(u)
    \/ \E u \in Units : MapAcquire(u)
    \/ \E u \in Units : MapCall(u)
    \/ MapDrain
    \/ MapReturn
    \/ PMapFastPath
    \/ PMapSubmit
    \/ \E u \in Units : PMapStart(u)
    \/ \E u \in Units : PMapCall(u)
    \/ PMapDrain
    \/ PMapReturn
    \/ Shutdown

Spec == Init /\ [][Next]_vars

\* the caller runs MapOperation.execute again on the same collection with one
\* record replaced; the collaborator may answer anew for that record only
Rerun ==
    /\ variant = "map"
    /\ phase = "returned"
    /\ ~ first.done
    /\ \E k \in Units, rec \in InputRecords :
        /\ first' = [done |-> TRUE, k |-> k, ret |-> ret, ret_src |-> ret_src, answer |-> [u \in Units |-> futures[u].answer]]
        /\ input_data' = [input_data EXCEPT ![k + 1] = rec]
        /\ input_now' = [input_data EXCEPT ![k + 1] = rec]
    /\ phase' = "checked"
    /\ futures' = <<>>
    /\ i' = 0
    /\ results' = <<>>
    /\ results_src' = <<>>
    /\ total_cost' = 0
    /\ ret' = <<>>
    /\ ret_src' = <<>>
    /\ error' = "none"
    /\ n_acquire' = 0
    /\ n_call' = 0
    /\ UNCHANGED <<variant, config, max_workers, answers, verdict>>

InitTwice ==
    /\ \E s \in TwiceScenarios :
        /\ variant = s.variant
        /\ config = s.config
        /\ input_data = s.input_data
        /\ input_now = s.input_data
        /\ max_workers = s.max_workers
        /\ answers = s.answers
    /\ first = NoFirst
    /\ phase = "new"
    /\ verdict = "none"
    /\ futures = <<>>
    /\ i = 0
    /\ results = <<>>
    /\ results_src = <<>>
    /\ total_cost = 0
    /\ ret = <<>>
    /\ ret_src = <<>>
    /\ error = "none"
    /\ n_acquire = 0
    /\ n_call = 0

NextTwice ==
    \/ SyntaxCheck
    \/ MapSubmit
    \/ \E u \in Units : MapStart(u)
    \/ \E u \in Units : MapAcquire(u)
    \/ \E u \in Units : MapCall(u)
    \/ MapDrain
    \/ MapReturn
    \/ Shutdown
    \/ Rerun

SpecTwice == InitTwice /\ [][NextTwice]_vars

\* a run followed to its end: the calling thread goes on whenever it can, every
\* worker of the pool is scheduled, and every try_acquire and every call of
\* the collaborator returns (or raises) in the end
InitLive ==
    /\ \E s \in LiveScenarios :
        /\ variant = s.variant
        /\ config = s.config
        /\ input_data = s.input_data
        /\ input_now = s.input_data
        /\ max_workers = s.max_workers
        /\ answers = s.answers
    /\ first = NoFirst
    /\ phase = "new"
    /\ verdict = "none"
    /\ futures = <<>>
    /\ i = 0
    /\ results = <<>>
    /\ results_src = <<>>
    /\ total_cost = 0
    /\ ret = <<>>
    /\ ret_src = <<>>
    /\ error = "none"
    /\ n_acquire = 0
    /\ n_call = 0

\* the indices a unit can have: one per item and prompt, two prompts at most
UnitIds == 0..(MaxItems * 2 - 1)

CallerFairness ==
    /\ WF_vars(SyntaxCheck)
    /\ WF_vars(MapFastPath) /\ WF_vars(MapSubmit) /\ WF_vars(MapDrain) /\ WF_vars(MapReturn)
    /\ WF_vars(PMapFastPath) /\ WF_vars(PMapSubmit) /\ WF_vars(PMapDrain) /\ WF_vars(PMapReturn)
    /\ WF_vars(Shutdown)

WorkerFairness ==
    \A u \in UnitIds :
        /\ WF_vars(u \in Units /\ MapStart(u))
        /\ WF_vars(u \in Units /\ MapAcquire(u))
        /\ WF_vars(u \in Units /\ MapCall(u))
        /\ WF_vars(u \in Units /\ PMapStart(u))
        /\ WF_vars(u \in Units /\ PMapCall(u))

SpecLive == InitLive /\ [][Next]_vars /\ CallerFairness /\ WorkerFairness

\* ------------------------------------------------------------ properties
Generative == IF variant = "map" THEN ~ MapOnlyDropKeys ELSE ~ PMapOnlyDropKeys

SrcOf(seq) == {seq[n] : n \in DOMAIN seq}

RECURSIVE SumCosts(_)
SumCosts(S) ==
    IF S = {} THEN 0
    ELSE LET u == CHOOSE x \in S : TRUE
         IN  futures[u].cost + SumCosts(S \ {u})

\* C1: in both variants the returned collection is a sub-sequence of the input
\* by item index: one source index per record, indices strictly increasing
\* (so no item twice and length <= input length), and a value of the input
\* found in a record is a field of the item at its source index.
C1_OutputIsSubsequence ==
    phase = "returned" =>
        /\ Len(ret) = Len(ret_src)
        /\ Len(ret) <= NumItems
        /\ \A n \in 1..Len(ret) :
            /\ ret_src[n] \in 0..(NumItems - 1)
            /\ \A m \in 1..Len(ret) : m < n => ret_src[m] < ret_src[n]
            /\ \A key \in DOMAIN ret[n] : ret[n][key] = 0 => key \in DOMAIN Item(ret_src[n])

C1_Witness ==
    /\ phase = "returned"
    /\ Generative
    /\ NumItems = 2
    /\ ret_src = <<1>>
    /\ DOMAIN ret[1] # {}

\* C2: when execute returns, total_cost is the sum of the costs reported by
\* every dispatched unit, the units without a record included.
C2_TotalCostIsSum ==
    phase = "returned" => total_cost = SumCosts(Units)

C2_Witness ==
    /\ phase = "returned"
    /\ \E u, v \in Units : /\ ~ futures[u].has_out /\ futures[u].cost = 2
                           /\ futures[v].has_out /\ futures[v].cost = 1
    /\ total_cost = 3

\* C3: in the single-prompt variant an item has a record in the returned
\* collection iff its Invocation Result is validated, and an answer that is
\* not validated never makes execute fail.
C3_RecordIffValidated ==
    (variant = "map" /\ Generative) =>
        /\ phase = "returned" =>
            \A k \in 0..(NumItems - 1) : (k \in SrcOf(ret_src)) <=> futures[k].answer.validated
        /\ phase \in {"unwinding", "failed"} =>
            ~ (futures[i].answer.raises = "none" /\ ~ futures[i].answer.validated)

C3_Witness ==
    /\ variant = "map"
    /\ Generative
    /\ phase = "returned"
    /\ NumItems = 2
    /\ futures[0].answer.raises = "none" /\ ~ futures[0].answer.validated
    /\ futures[1].answer.validated
    /\ ret_src = <<1>>

\* the record returned for item k
RecordOf(k) == ret[CHOOSE n \in 1..Len(ret) : ret_src[n] = k]

\* the record the first run returned for item k
FirstRecordOf(k) == first.ret[CHOOSE n \in 1..Len(first.ret) : first.ret_src[n] = k]

Others(src) == SelectSeq(src, LAMBDA x : x # first.k)

\* C4: two runs of the single-prompt variant over collections of one length
\* that differ in the record and the Invocation Result of item k only return
\* the same record for every other item, and those records in the same order.
C4_PerItemIndependence ==
    (first.done /\ phase = "returned") =>
        /\ Others(ret_src) = Others(first.ret_src)
        /\ \A j \in SrcOf(Others(ret_src)) : RecordOf(j) = FirstRecordOf(j)

C4_Witness ==
    /\ first.done
    /\ phase = "returned"
    /\ NumItems = 2
    /\ first.k = 0
    /\ first.ret_src = <<0, 1>>
    /\ ret_src = <<1>>
    /\ first.answer[0] # futures[0].answer

\* the unit submitted for item k and prompt j, and the partial output it returned
UnitOf(k, j) == CHOOSE u \in Units : futures[u].item = k /\ futures[u].pj = j

PartialOutput(k, j) == futures[UnitOf(k, j)].out

\* the last prompt, in prompt-index order, whose partial output has the key
LastWith(k, key) ==
    CHOOSE j \in 0..(NumPrompts - 1) :
        /\ key \in DOMAIN PartialOutput(k, j)
        /\ \A h \in 0..(NumPrompts - 1) : key \in DOMAIN PartialOutput(k, h) => h <= j

ConfiguredDropKeys == IF Given(config, "drop_keys") THEN config["drop_keys"] ELSE {}

\* C5: in the multi-prompt variant with prompts configured, when execute
\* returns there is one record per input item, in order, and the record of
\* item k is the original record updated with the partial output of every
\* prompt in prompt-index order (the last prompt that gives a key decides its
\* value), less the keys of drop_keys.
C5_MergedPerItem ==
    (variant = "parallel_map" /\ phase = "returned" /\ Given(config, "prompts") /\ Len(config["prompts"]) >= 1) =>
        /\ Len(ret) = NumItems
        /\ \A k \in 0..(NumItems - 1) :
            LET rec == ret[k + 1]
                given == UNION {DOMAIN PartialOutput(k, j) : j \in 0..(NumPrompts - 1)}
            IN  /\ ret_src[k + 1] = k
                /\ DOMAIN rec = (DOMAIN Item(k) \cup given) \ ConfiguredDropKeys
                /\ \A key \in DOMAIN rec :
                    rec[key] = IF key \in given THEN PartialOutput(k, LastWith(k, key))[key] ELSE Item(k)[key]

C5_Witness ==
    /\ variant = "parallel_map"
    /\ phase = "returned"
    /\ Given(config, "prompts")
    /\ ~ Given(config, "drop_keys")
    /\ NumItems = 2
    /\ Len(config["prompts"]) = 2
    /\ PartialOutput(1, 0) = Rec2("a", 1, "b", 1)
    /\ PartialOutput(1, 1) = Rec1("a", 2)
    /\ ret[2] = [id |-> 0, a |-> 2, b |-> 1]

\* C6: with drop_keys set and no prompt / prompts configured, execute makes no
\* model invocation and no rate-limiter acquisition, does not fail, and
\* returns one record per input record, in order, each the input record
\* without the keys of drop_keys, with cost 0.
C6_FastPathProjects ==
    (Given(config, "drop_keys") /\ ~ Given(config, IF variant = "map" THEN "prompt" ELSE "prompts")) =>
        /\ n_call = 0
        /\ n_acquire = 0
        /\ Units = {}
        /\ phase \notin {"unwinding", "failed"}
        /\ phase = "returned" =>
            /\ Len(ret) = NumItems
            /\ total_cost = 0
            /\ \A n \in 1..NumItems :
                /\ DOMAIN ret[n] = {key \in DOMAIN input_data[n] : key \notin config["drop_keys"]}
                /\ \A key \in DOMAIN ret[n] : ret[n][key] = input_data[n][key]

C6_Witness ==
    /\ phase = "returned"
    /\ Given(config, "drop_keys")
    /\ ~ Given(config, "prompt") /\ ~ Given(config, "prompts")
    /\ variant = "parallel_map"
    /\ config["drop_keys"] = {"a", "zz"}
    /\ input_data = <<[id |-> 0, a |-> 0], [id |-> 0]>>
    /\ ret = <<[id |-> 0], [id |-> 0]>>

C8_AcceptedConfigNeverFails ==
    verdict = "ok" => error # "KeyError"

\* C9: a multi-prompt configuration with a non-empty prompts list and a schema
\* key that no prompt lists in its output_keys fails syntax_check.
C9_UncoveredSchemaKeyRejected ==
    (/\ variant = "parallel_map"
     /\ phase # "new"
     /\ Given(config, "prompts") /\ Len(config["prompts"]) >= 1
     /\ Given(config, "output") /\ "schema" \in DOMAIN config["output"]
     /\ \E key \in DOMAIN config["output"]["schema"] :
            \A j \in 1..Len(config["prompts"]) :
                ~ (Given(config["prompts"][j], "output_keys") /\ key \in config["prompts"][j]["output_keys"]))
    => verdict \notin {"ok", "none"}

C9_Witness ==
    /\ variant = "parallel_map"
    /\ phase = "checked"
    /\ Given(config, "prompts") /\ config["prompts"] = <<Prompt("ok", {"a"}), Prompt("ok", {"a"})>>
    /\ Given(config, "output") /\ config["output"] = Rec1("schema", SchemaAB)
    /\ verdict = "ValueError"

\* C10: a configuration without drop_keys and without a complete generative
\* directive (prompt / prompts, or output, missing) is rejected by
\* syntax_check with a ValueError.
C10_MissingDirectiveIsValueError ==
    (/\ phase # "new"
     /\ ~ Given(config, "drop_keys")
     /\ ~ (Given(config, IF variant = "map" THEN "prompt" ELSE "prompts") /\ Given(config, "output")))
    => verdict = "ValueError"

\* the output_keys of every prompt entry that has them
ListedKeys(prompts) ==
    UNION {prompts[j]["output_keys"] : j \in {h \in DOMAIN prompts : Given(prompts[h], "output_keys")}}

\* C11: a multi-prompt configuration with a non-empty prompts list in which
\* the union of the prompts' output_keys is not the key set of output.schema
\* (a schema key no prompt lists, or a listed key the schema lacks) fails
\* syntax_check.
C11_UnionMustEqualSchema ==
    (/\ variant = "parallel_map"
     /\ phase # "new"
     /\ Given(config, "prompts") /\ Len(config["prompts"]) >= 1
     /\ Given(config, "output") /\ "schema" \in DOMAIN config["output"]
     /\ ListedKeys(config["prompts"]) # DOMAIN config["output"]["schema"])
    => verdict \notin {"ok", "none"}

\* C12: in the single-prompt variant with validation rules configured, the
\* record a unit returns for a validated item (before drop_keys) is the record
\* validation_fn built from the same response and handed to validate_output.
C12_EmittedIsValidatedRecord ==
    variant = "map" =>
        \A u \in Units :
            (futures[u].st = "done" /\ futures[u].has_out /\ futures[u].has_checked)
                => futures[u].out = futures[u].checked

\* a unit whose call_llm has begun and answered
Called(f) == f.answer.raises # "unasked"

\* C13: in the single-prompt variant, in every interleaving, a unit acquires
\* rate-limiter capacity exactly once and before its model invocation: a unit
\* that has called the model has one completed acquire, no unit has more than
\* one, and the invocations begun never outnumber the completed acquires.
C13_AcquireBeforeCall ==
    variant = "map" =>
        /\ n_call <= n_acquire
        /\ \A u \in Units :
            /\ futures[u].acq <= 1
            /\ Called(futures[u]) => futures[u].acq = 1
            /\ futures[u].st = "done" => futures[u].acq = 1

C13_Witness ==
    /\ variant = "map"
    /\ phase = "draining"
    /\ NumItems = 2
    /\ futures[0].st = "acquired"
    /\ Called(futures[1]) /\ futures[1].st = "done"
    /\ n_acquire = 2
    /\ n_call = 1

\* C14: in the multi-prompt variant a unit acquires rate-limiter capacity
\* before its model invocation: a unit that has called the model has a
\* completed acquire.
C14_PMapAcquireBeforeCall ==
    variant = "parallel_map" =>
        \A u \in Units : Called(futures[u]) => futures[u].acq >= 1

\* a unit whose model invocation or response parsing raised
CollaboratorFailed(f) == f.answer.raises \in {"call", "parse"}

\* C15: in both variants, once the collaborator call of any unit has raised,
\* execute does not return: the unit is a raised future and not a unit with
\* an absent record, no collection is returned, and when execute has failed
\* the failure the caller gets is the one of the future the drain stopped at.
C15_FailurePropagates ==
    /\ \A u \in Units : CollaboratorFailed(futures[u]) =>
        /\ futures[u].st = "raised"
        /\ futures[u].err \in {"LLMError", "ParseError"}
        /\ phase # "returned"
        /\ ret = <<>>
    /\ phase \in {"unwinding", "failed"} =>
        /\ futures[i].st = "raised"
        /\ error = futures[i].err
        /\ ret = <<>>

C15_Witness ==
    /\ phase = "failed"
    /\ NumItems = 2
    /\ futures[0].st = "done" /\ futures[0].has_out
    /\ futures[1].answer.raises = "parse"
    /\ results # <<>>
    /\ error = "ParseError"

\* the record of item k before drop_keys: the input record on the fast path,
\* the merged record of its unit, or its accumulator in the multi-prompt variant
MergedRecord(k) ==
    IF ~ Generative THEN Item(k)
    ELSE IF variant = "map" THEN futures[k].out
    ELSE results[k]

\* C16: when drop_keys is configured, in both variants and on both paths, no
\* returned record has a key of drop_keys, a key the parsed output brought
\* included, and every other key of the merged record is there with its value.
C16_DropKeysNeverReturned ==
    (phase = "returned" /\ Given(config, "drop_keys")) =>
        \A n \in 1..Len(ret) :
            LET merged == MergedRecord(ret_src[n])
            IN  /\ DOMAIN ret[n] \cap config["drop_keys"] = {}
                /\ \A key \in DOMAIN merged : key \notin config["drop_keys"] => key \in DOMAIN ret[n]
                /\ \A key \in DOMAIN ret[n] : key \in DOMAIN merged /\ ret[n][key] = merged[key]

C16_Witness ==
    /\ phase = "returned"
    /\ variant = "map"
    /\ Generative
    /\ Given(config, "drop_keys") /\ config["drop_keys"] = {"a", "zz"}
    /\ input_data = <<[id |-> 0]>>
    /\ futures[0].out = [id |-> 0, a |-> 1]
    /\ ret = <<[id |-> 0]>>

\* C17: in both variants and on every path, when execute has returned or
\* failed the caller's collection is as it was at the call: same length and
\* order, and every record has the same keys with the same values.
C17_InputUnchanged ==
    phase \in {"returned", "failed"} =>
        /\ Len(input_now) = Len(input_data)
        /\ \A n \in 1..Len(input_data) :
            /\ DOMAIN input_now[n] = DOMAIN input_data[n]
            /\ \A key \in DOMAIN input_data[n] : input_now[n][key] = input_data[n][key]

C17_Witness ==
    /\ phase = "returned"
    /\ variant = "parallel_map"
    /\ Given(config, "prompts")
    /\ Given(config, "drop_keys") /\ config["drop_keys"] = {"a", "zz"}
    /\ input_now = <<[id |-> 0, a |-> 0]>>
    /\ results[0] = [id |-> 0, a |-> 2, b |-> 2]
    /\ ret = <<[id |-> 0, b |-> 2]>>

\* every started multi-prompt unit holds the prompt of its own entry rendered
\* against the record of its own item as the caller gave it
RenderedFromOriginal ==
    \A u \in Units : futures[u].st \in {"running", "done"} =>
        \/ futures[u].prompt = EmptyString /\ input_data[futures[u].item + 1] = EmptyRec
        \/ /\ futures[u].prompt.tmpl = config["prompts"][futures[u].pj + 1]["prompt"]
           /\ futures[u].prompt.data = input_data[futures[u].item + 1]

\* a step of the calling thread: the submission, or one turn of the drain loop
MainThreadStep ==
    \/ phase = "checked"
    \/ phase = "draining" /\ i' = i + 1 /\ futures' = futures

\* a step of a worker: a submitted unit starts, or its call answers
WorkerStep == phase \in {"draining", "unwinding"} /\ futures' # futures

\* C18: in the multi-prompt variant, in every interleaving, the prompt of the
\* unit of (item i, prompt j) is rendered from the original record i and the
\* entry j, whatever the accumulator of item i holds by then; a step of a
\* worker leaves the accumulators and the caller's records as they are, and
\* the accumulators change in steps of the calling thread only.
C18_StatelessUnits ==
    [][variant = "parallel_map" =>
        /\ RenderedFromOriginal'
        /\ results' # results => MainThreadStep
        /\ WorkerStep => (results' = results /\ input_now' = input_now /\ total_cost' = total_cost)]_vars

C18_Witness ==
    /\ variant = "parallel_map"
    /\ phase = "draining"
    /\ i = 1
    /\ Given(config, "prompts") /\ Len(config["prompts"]) = 2
    /\ results[0] = [id |-> 0, a |-> 1]
    /\ futures[1].st = "running"
    /\ futures[1].prompt.data = [id |-> 0, a |-> 0]

\* the units between the start and the completion of their processing
InFlight == {u \in Units : futures[u].st \in {"running", "acquired"}}

\* the units execute dispatches: one per item, or one per item and prompt
Dispatched ==
    IF variant = "map" THEN NumItems
    ELSE IF Given(config, "prompts") THEN NumItems * Len(config["prompts"])
    ELSE 0

\* C19: at every moment the units in flight are at most the pool's
\* max_workers; once execute is past the submission every unit is a future
\* (all are submitted up front), and the units not yet started are queued.
C19_ConcurrencyBounded ==
    /\ Cardinality(InFlight) <= max_workers
    /\ phase \in {"draining", "unwinding", "returned", "failed"} /\ Generative =>
        /\ Cardinality(Units) = Dispatched
        /\ \A u \in Units : futures[u].st \in {"queued", "running", "acquired", "done", "raised"}
    /\ phase \in {"new", "checked"} => Units = {}

C19_Witness ==
    /\ variant = "parallel_map"
    /\ phase = "draining"
    /\ max_workers = 2
    /\ Cardinality(Units) = 4
    /\ Cardinality(InFlight) = 2
    /\ futures[0].st = "done"
    /\ futures[3].st = "queued"

\* C20: in both variants, for an empty input record the prompt a unit passes
\* to the model collaborator is the empty string, and no rendering is
\* attempted (the unit cannot fail on the template).
C20_EmptyRecordEmptyPrompt ==
    \A u \in Units : input_data[futures[u].item + 1] = EmptyRec =>
        /\ Called(futures[u]) => futures[u].prompt = EmptyString
        /\ futures[u].err # "TemplateSyntaxError"

\* one turn of the drain loop takes the future at i, which is finished, and
\* moves to the next: no future is skipped and none is taken twice
DrainInOrder == i' # i => (i' = i + 1 /\ i \in Units /\ futures[i].st = "done" /\ futures' = futures)

\* execute has finished: it returned, or the failure of a unit reached the caller
ExecuteFinished == phase \in {"returned", "failed"}

\* C21: for a finite input and a pool of at least one worker, when every
\* acquire and every collaborator call ends and the workers are scheduled
\* fairly, execute finishes: it returns after it has drained every dispatched
\* future once and in dispatch order, or it fails with the failure of a unit;
\* the drain does not block for ever when units complete out of order or the
\* pool has fewer workers than units.
C21_ExecuteTerminates ==
    /\ <>ExecuteFinished
    /\ [][DrainInOrder]_vars
    /\ [](phase = "returned" /\ Generative => (i = Cardinality(Units) /\ \A u \in Units : futures[u].st = "done"))
    /\ [](phase = "failed" => \E u \in Units : futures[u].st = "raised")

C21_Witness ==
    /\ phase = "returned"
    /\ variant = "parallel_map"
    /\ max_workers = 1
    /\ Cardinality(Units) = 4
    /\ i = 4
    /\ Len(ret) = 2

====
